---- MODULE Spec2Model ----
(***************************************************************************)
(* The supervision engine of the Frame manager: the port allocator with    *)
(* its registry, the instance table with the lifecycle operations of       *)
(* InstanceManager, the FrameManager entry points that bind a port to a    *)
(* process, and the health monitor loop.  Operations are tasks that run    *)
(* concurrently; every `.await` on a lock or on the OS is a point where    *)
(* another task may run.                                                   *)
(***************************************************************************)
EXTENDS Integers, Sequences, FiniteSets, TLC

\* ------------------------------------------------------------------ bounds
\* Last port of the configured range (the range is RangeStart..RangeEnd).
RangeEnd == 2
\* Number of processes the OS hands out over a run (pids 1..MaxPid).
MaxPid == 2
\* Number of worker loops of the health monitor alive at once.
MaxLoops == 2
\* How many times over the width of its field a value written in the
\* configuration file may be.
MaxWraps == 1

\* ------------------------------------------------------- program constants
\* First port of the configured range.
RangeStart == 1
\* Consecutive failed probe sets after which the monitor restarts.
RestartThreshold == 3

Users == {"alice", "bob"}
Tasks == {"t1", "t2"}
Mon == "mon"
Actors == Tasks \cup {Mon}
NoTask == "none"
NoUser == "nobody"

Ports == RangeStart..RangeEnd
Pids == 1..MaxPid

VARIABLES
    registry,   \* PortRegistry: [allocated: user -> port (0 = no entry), released: Seq(port)]
    disk,       \* the registry file: the document the last successful save wrote
    instances,  \* InstanceManager.instances: user -> Instance ("Absent" = no key)
    alive,      \* pids of the processes the OS currently runs
    nextPid,    \* the pid the next successful spawn gets
    cache,      \* HealthMonitor.status_cache: user -> consecutive_failures
    tableLock,  \* the actor holding instances.write(), or NoTask
    pc,         \* per actor: where it is in its operation
    op,         \* per actor: the public operation it runs
    usr,        \* per actor: the username argument
    prt,        \* per actor: the port argument of start/restart
    monTodo,    \* monitor: Running users of the tick's snapshot still to probe
    monSnap,    \* monitor: the snapshot (pid, port) of those users
    monRunning, \* HealthMonitor.running: the flag start sets and stop clears
    monLoops,   \* worker loops that start has spawned and that have not ended
    cfgFile,    \* the configuration file: the values written for the validated keys
    config,     \* FrameManager.config: the Config in memory
    mgrRunning, \* FrameManager.running
    sweepTodo,  \* FrameManager::stop: records of its list() still to stop
    metricsLock, \* the task holding metrics.write(), or NoTask
    configLock  \* the tasks holding config.read()

\* The fields of FrameManager next to its components, and its configuration file.
managerVars == <<cfgFile, config, mgrRunning, sweepTodo, metricsLock, configLock>>

vars == <<registry, disk, instances, alive, nextPid, cache, tableLock, pc, op, usr, prt,
          monTodo, monSnap, monRunning, monLoops, managerVars>>

\* ------------------------------------------------------------ PortRegistry
Image(allocated) == {allocated[u] : u \in DOMAIN allocated} \ {0}

Contains(s, x) == \E i \in 1..Len(s) : s[i] = x

\* PortRegistry::get_port (0 stands for None)
get_port(reg, username) == reg.allocated[username]

\* PortRegistry::allocate: bails when the port is already a value of allocated
registry_allocate(reg, username, port) ==
    IF port \in Image(reg.allocated)
    THEN [ok |-> FALSE, reg |-> reg]
    ELSE [ok |-> TRUE,
          reg |-> [allocated |-> [reg.allocated EXCEPT ![username] = port],
                   released  |-> SelectSeq(reg.released, LAMBDA p : p # port)]]

\* A release that keeps the user's entry.
registry_release_keeps_entry(reg, username) ==
    IF reg.allocated[username] # 0
    THEN [ok |-> TRUE,
          reg |-> [allocated |-> reg.allocated,
                   released  |-> IF Contains(reg.released, reg.allocated[username])
                                 THEN reg.released
                                 ELSE Append(reg.released, reg.allocated[username])]]
    ELSE [ok |-> FALSE, reg |-> reg]

\* PortRegistry::release
registry_release(reg, username) ==
    IF reg.allocated[username] # 0
    THEN [ok |-> TRUE,
          reg |-> [allocated |-> [reg.allocated EXCEPT ![username] = 0],
                   released  |-> IF Contains(reg.released, reg.allocated[username])
                                 THEN reg.released
                                 ELSE Append(reg.released, reg.allocated[username])]]
    ELSE [ok |-> FALSE, reg |-> reg]

\* A pop that takes the oldest released port.
pop_released_oldest(reg) ==
    IF Len(reg.released) = 0
    THEN [port |-> 0, reg |-> reg]
    ELSE [port |-> reg.released[1],
          reg  |-> [reg EXCEPT !.released = SubSeq(reg.released, 2, Len(reg.released))]]

\* PortRegistry::pop_released: Vec::pop takes the last element (0 stands for None)
pop_released(reg) ==
    IF Len(reg.released) = 0
    THEN [port |-> 0, reg |-> reg]
    ELSE [port |-> reg.released[Len(reg.released)],
          reg  |-> [reg EXCEPT !.released = SubSeq(reg.released, 1, Len(reg.released) - 1)]]

\* ----------------------------------------------------------- PortAllocator
\* The loop of find_available_port over range_start..=range_end: the first port,
\* ascending, that is no value of allocated and that is_port_in_use does not
\* report bound on the loopback interface (inUse); 0 stands for the bail.
scan(range_start, range_end, reg, inUse) ==
    LET free == {p \in range_start..range_end :
                    p \notin Image(reg.allocated) /\ p \notin inUse}
    IN  IF free = {} THEN 0 ELSE CHOOSE p \in free : \A q \in free : p <= q

\* A scan that answers the highest free port.
find_highest_port(reg, inUse) ==
    LET free == {p \in Ports : p \notin Image(reg.allocated) /\ p \notin inUse}
    IN  IF free = {} THEN 0 ELSE CHOOSE p \in free : \A q \in free : p >= q

\* PortAllocator::find_available_port
find_available_port(reg, inUse) == scan(RangeStart, RangeEnd, reg, inUse)

\* An allocate that never returns the port the user already has.
allocate_ignores_existing(reg, username, inUse) ==
    LET popped == pop_released(reg)
        found  == find_available_port(reg, inUse) IN
    IF popped.port # 0
    THEN LET r == registry_allocate(popped.reg, username, popped.port) IN
         [ok |-> r.ok, port |-> IF r.ok THEN popped.port ELSE 0, reg |-> r.reg, save |-> r.ok]
    ELSE IF found = 0
    THEN [ok |-> FALSE, port |-> 0, reg |-> reg, save |-> FALSE]
    ELSE LET r == registry_allocate(reg, username, found) IN
         [ok |-> r.ok, port |-> IF r.ok THEN found ELSE 0, reg |-> r.reg, save |-> r.ok]

\* PortAllocator::allocate up to registry.save(), under registry.write(): the
\* port (0 with ok = FALSE for an Err), the registry in memory, and whether the
\* path goes on to save it.
allocate(reg, username, inUse) ==
    IF get_port(reg, username) # 0
    THEN [ok |-> TRUE, port |-> get_port(reg, username), reg |-> reg, save |-> FALSE]
    ELSE LET popped == pop_released(reg)
             found  == find_available_port(reg, inUse) IN
         IF popped.port # 0
         THEN LET r == registry_allocate(popped.reg, username, popped.port) IN
              [ok |-> r.ok, port |-> IF r.ok THEN popped.port ELSE 0, reg |-> r.reg,
               save |-> r.ok]
         ELSE IF found = 0
         THEN [ok |-> FALSE, port |-> 0, reg |-> reg, save |-> FALSE]
         ELSE LET r == registry_allocate(reg, username, found) IN
              [ok |-> r.ok, port |-> IF r.ok THEN found ELSE 0, reg |-> r.reg,
               save |-> r.ok]

\* What is_port_in_use can answer during allocate(username): the scan, the only
\* place that asks, runs when the user has no port and the released pool is empty.
InUseChoices(reg, username) ==
    IF get_port(reg, username) = 0 /\ Len(reg.released) = 0 THEN SUBSET Ports ELSE {{}}

\* PortAllocator::release up to registry.save(), under registry.write()
release(reg, username) ==
    LET r == registry_release(reg, username) IN
    [ok |-> r.ok, reg |-> r.reg, save |-> r.ok]

\* PortRegistry::save: fs::write replaces the file with the document, or fails
\* and the file keeps what it had.
save(reg, file, written) == IF written THEN reg ELSE file

\* What fs::write can answer when the path r reaches save (no save, no failure).
SaveResults(r) == IF r.save THEN {TRUE, FALSE} ELSE {TRUE}

\* PortAllocator::new: PortRegistry::load takes the document of the registry file
\* as it is; nothing compares it with range_start and range_end.
load(file) == file

\* ---------------------------------------------------------- ProcessManager
\* ProcessManager::is_running: signal 0 reaches the process
is_running(pid, running) == pid \in running

\* A stop that reports an error for a process that is already gone.
process_stop_esrch_is_error(pid, running, outcome) ==
    IF ~is_running(pid, running)
    THEN [ok |-> FALSE, running |-> running]
    ELSE IF outcome = "exited"
    THEN [ok |-> TRUE, running |-> running \ {pid}]
    ELSE IF outcome = "sigkill"
    THEN [ok |-> TRUE, running |-> running]
    ELSE [ok |-> FALSE, running |-> running]

\* ProcessManager::stop.  outcome is what the OS does with the signals:
\*   "exited"      the process is gone after SIGTERM (ESRCH at once, or it exits
\*                 within the 50 polls): Ok
\*   "sigkill"     still running after the 50 polls, SIGKILL is delivered: Ok is
\*                 returned without waiting for the process to go
\*   "sigfailed"   still running after the 50 polls and SIGKILL is refused with an
\*                 errno other than ESRCH: Err
\* A process that is not running answers ESRCH, whatever the outcome drawn.
process_stop(pid, running, outcome) ==
    IF ~is_running(pid, running) \/ outcome = "exited"
    THEN [ok |-> TRUE, running |-> running \ {pid}]
    ELSE IF outcome = "sigkill"
    THEN [ok |-> TRUE, running |-> running]
    ELSE [ok |-> FALSE, running |-> running]

StopOutcomes == {"exited", "sigkill", "sigfailed"}

\* --------------------------------------------------------- InstanceManager
NoInstance == [status |-> "Absent", port |-> 0, pid |-> 0, started |-> FALSE]

\* the Instance value InstanceManager::create and load_instance insert
NewInstance == [status |-> "Stopped", port |-> 0, pid |-> 0, started |-> FALSE]

\* A start that marks the record Running before the process is spawned.
start_begin_marks_running(inst, port) == [inst EXCEPT !.status = "Running", !.port = port]

\* InstanceManager::start before the spawn
start_begin(inst, port) == [inst EXCEPT !.status = "Starting", !.port = port]

\* InstanceManager::start after a successful spawn
start_finish(inst, pid) == [inst EXCEPT !.pid = pid, !.status = "Running", !.started = TRUE]

\* InstanceManager::stop before the signal
stop_begin(inst) == [inst EXCEPT !.status = "Stopping"]

\* A stop that leaves started_at as it is.
stop_finish_keeps_started_at(inst) == [inst EXCEPT !.pid = 0, !.status = "Stopped"]

\* InstanceManager::stop after ProcessManager::stop returned Ok (or with no pid)
stop_finish(inst) == [inst EXCEPT !.pid = 0, !.status = "Stopped", !.started = FALSE]

\* A start that respawns whatever the status is.
start_respawns_running(inst) == FALSE

\* InstanceManager::start returns Ok before any assignment when the record is Running
start_is_noop(inst) == inst.status = "Running"

\* InstanceManager::start run to its return.  pid is the pid a successful spawn
\* gets; spawned tells whether ProcessManager::spawn answers Ok.
start_run(inst, port, running, pid, spawned) ==
    IF inst.status = "Absent"
    THEN [ok |-> FALSE, inst |-> inst, running |-> running]
    ELSE IF start_is_noop(inst)
    THEN [ok |-> TRUE, inst |-> inst, running |-> running]
    ELSE IF spawned
    THEN [ok |-> TRUE, inst |-> start_finish(start_begin(inst, port), pid),
          running |-> running \cup {pid}]
    ELSE [ok |-> FALSE, inst |-> start_begin(inst, port), running |-> running]

\* A stop that answers an error for a record that is already Stopped.
stop_run_stopped_is_error(inst, running, outcome) ==
    IF inst.status \in {"Absent", "Stopped"}
    THEN [ok |-> FALSE, inst |-> inst, running |-> running]
    ELSE IF inst.pid = 0
    THEN [ok |-> TRUE, inst |-> stop_finish(stop_begin(inst)), running |-> running]
    ELSE LET r == process_stop(inst.pid, running, outcome) IN
         [ok |-> r.ok,
          inst |-> IF r.ok THEN stop_finish(stop_begin(inst)) ELSE stop_begin(inst),
          running |-> r.running]

\* InstanceManager::stop run to its return.  outcome is what the OS does with the
\* signals of ProcessManager::stop.
stop_run(inst, running, outcome) ==
    IF inst.status = "Absent"
    THEN [ok |-> FALSE, inst |-> inst, running |-> running]
    ELSE IF inst.status = "Stopped"
    THEN [ok |-> TRUE, inst |-> inst, running |-> running]
    ELSE IF inst.pid = 0
    THEN [ok |-> TRUE, inst |-> stop_finish(stop_begin(inst)), running |-> running]
    ELSE LET r == process_stop(inst.pid, running, outcome) IN
         [ok |-> r.ok,
          inst |-> IF r.ok THEN stop_finish(stop_begin(inst)) ELSE stop_begin(inst),
          running |-> r.running]

\* InstanceManager::restart run to its return: stop, `?`, the pause, start.
restart_run(inst, port, running, pid, spawned, outcome) ==
    LET s == stop_run(inst, running, outcome) IN
    IF s.ok THEN start_run(s.inst, port, s.running, pid, spawned) ELSE s

\* ------------------------------------------------------------ control flow
Goto(a, where) ==
    /\ pc' = [pc EXCEPT ![a] = where]
    /\ UNCHANGED <<op, usr, prt>>

\* The public operation of actor a returns.  A task becomes idle; the monitor goes
\* on after its `if let Err(e) = instance_manager.restart(..)`.
Finish(a) ==
    IF a = Mon
    THEN Goto(a, "after")
    ELSE /\ pc'  = [pc  EXCEPT ![a] = "idle"]
         /\ op'  = [op  EXCEPT ![a] = "none"]
         /\ usr' = [usr EXCEPT ![a] = NoUser]
         /\ prt' = [prt EXCEPT ![a] = 0]

\* What follows InstanceManager::stop in the operation that called it:
\* restart propagates an Err with `?` and otherwise sleeps and starts; remove
\* ignores the result (`let _ =`) and deletes; the sweep of FrameManager::stop
\* ignores it too and goes on with its next record.
AfterStop(a, ok) ==
    CASE op[a] = "restart"  -> IF ok THEN Goto(a, "start") ELSE Finish(a)
      [] op[a] = "remove"   -> Goto(a, "delete")
      [] op[a] = "shutdown" -> Goto(a, "sweep")
      [] OTHER              -> Finish(a)

\* ------------------------------------------- InstanceManager::start, stop
\* start up to the spawn: takes instances.write(); returns at once when the record
\* is missing or Running, else marks it Starting with the port and keeps the lock
\* across the spawn.
StartLock(a) ==
    /\ pc[a] = "start"
    /\ tableLock = NoTask
    /\ UNCHANGED <<registry, disk, alive, nextPid, cache, monTodo, monSnap, monRunning, monLoops,
                   managerVars>>
    /\ IF instances[usr[a]].status = "Absent" \/ start_is_noop(instances[usr[a]])
       THEN /\ Finish(a)
            /\ UNCHANGED <<instances, tableLock>>
       ELSE /\ instances' = [instances EXCEPT ![usr[a]] = start_begin(@, prt[a])]
            /\ tableLock' = a
            /\ Goto(a, "spawn")

\* start, the spawn succeeds: the process is running after the settling window.
SpawnOk(a) ==
    /\ pc[a] = "spawn"
    /\ tableLock = a
    /\ nextPid <= MaxPid
    /\ alive' = alive \cup {nextPid}
    /\ instances' = [instances EXCEPT ![usr[a]] = start_finish(@, nextPid)]
    /\ nextPid' = nextPid + 1
    /\ tableLock' = NoTask
    /\ Finish(a)
    /\ UNCHANGED <<registry, disk, cache, monTodo, monSnap, monRunning, monLoops,
                   managerVars>>

\* start, the spawn fails (the OS refuses, or the process is gone after the
\* settling window): `?` returns the error and drops the lock.
SpawnFails(a) ==
    /\ pc[a] = "spawn"
    /\ tableLock = a
    /\ tableLock' = NoTask
    /\ Finish(a)
    /\ UNCHANGED <<registry, disk, instances, alive, nextPid, cache, monTodo, monSnap, monRunning, monLoops,
                   managerVars>>

\* stop up to the signal: takes instances.write(); returns at once when the record
\* is missing or Stopped; with no pid it finishes at once; else it marks the record
\* Stopping and keeps the lock across ProcessManager::stop.
StopLock(a) ==
    /\ pc[a] = "stop"
    /\ tableLock = NoTask
    /\ UNCHANGED <<registry, disk, alive, nextPid, cache, monTodo, monSnap, monRunning, monLoops,
                   managerVars>>
    /\ IF instances[usr[a]].status = "Absent"
       THEN /\ AfterStop(a, FALSE)
            /\ UNCHANGED <<instances, tableLock>>
       ELSE IF instances[usr[a]].status = "Stopped"
       THEN /\ AfterStop(a, TRUE)
            /\ UNCHANGED <<instances, tableLock>>
       ELSE IF instances[usr[a]].pid = 0
       THEN /\ instances' = [instances EXCEPT ![usr[a]] = stop_finish(stop_begin(@))]
            /\ AfterStop(a, TRUE)
            /\ UNCHANGED tableLock
       ELSE /\ instances' = [instances EXCEPT ![usr[a]] = stop_begin(@)]
            /\ tableLock' = a
            /\ Goto(a, "kill")

\* stop, ProcessManager::stop returns: Ok clears the pid and marks Stopped; Err
\* leaves the record as it is (`?`).  Either way the lock is dropped.
StopSignal(a, outcome) ==
    LET r == process_stop(instances[usr[a]].pid, alive, outcome) IN
    /\ pc[a] = "kill"
    /\ tableLock = a
    /\ alive' = r.running
    /\ instances' = IF r.ok THEN [instances EXCEPT ![usr[a]] = stop_finish(@)]
                            ELSE instances
    /\ tableLock' = NoTask
    /\ AfterStop(a, r.ok)
    /\ UNCHANGED <<registry, disk, nextPid, cache, monTodo, monSnap, monRunning, monLoops,
                   managerVars>>

\* InstanceManager::remove after its stop: takes instances.write() and drops the key.
RemoveDelete(a) ==
    /\ pc[a] = "delete"
    /\ tableLock = NoTask
    /\ instances' = [instances EXCEPT ![usr[a]] = NoInstance]
    /\ Finish(a)
    /\ UNCHANGED <<registry, disk, alive, nextPid, cache, tableLock, monTodo, monSnap, monRunning, monLoops,
                   managerVars>>

\* ------------------------------------------------------------ FrameManager
Begin(t, what, username, port, where) ==
    /\ pc'  = [pc  EXCEPT ![t] = where]
    /\ op'  = [op  EXCEPT ![t] = what]
    /\ usr' = [usr EXCEPT ![t] = username]
    /\ prt' = [prt EXCEPT ![t] = port]

\* FrameManager::start_instance up to the call of InstanceManager::start: the port
\* comes from PortAllocator::allocate; its Err returns at once (`?`).
start_instance(t, username, inUse, written) ==
    LET r == allocate(registry, username, inUse) IN
    /\ pc[t] = "idle"
    /\ written \in SaveResults(r)
    /\ registry' = r.reg
    /\ disk' = IF r.save THEN save(r.reg, disk, written) ELSE disk
    /\ IF r.ok /\ written THEN Begin(t, "start", username, r.port, "start")
                          ELSE UNCHANGED <<pc, op, usr, prt>>
    /\ UNCHANGED <<instances, alive, nextPid, cache, tableLock, monTodo, monSnap, monRunning, monLoops,
                   managerVars>>

\* FrameManager::stop_instance: calls InstanceManager::stop
stop_instance(t, username) ==
    /\ pc[t] = "idle"
    /\ Begin(t, "stop", username, 0, "stop")
    /\ UNCHANGED <<registry, disk, instances, alive, nextPid, cache, tableLock, monTodo, monSnap, monRunning, monLoops,
                   managerVars>>

\* FrameManager::restart_instance up to the call of InstanceManager::restart: the
\* port is read with get_port; None returns an error at once.
restart_instance(t, username) ==
    /\ pc[t] = "idle"
    /\ get_port(registry, username) # 0
    /\ Begin(t, "restart", username, get_port(registry, username), "stop")
    /\ UNCHANGED <<registry, disk, instances, alive, nextPid, cache, tableLock, monTodo, monSnap, monRunning, monLoops,
                   managerVars>>

\* FrameManager::allocate_port
allocate_port(username, inUse, written) ==
    LET r == allocate(registry, username, inUse) IN
    /\ written \in SaveResults(r)
    /\ registry' = r.reg
    /\ disk' = IF r.save THEN save(r.reg, disk, written) ELSE disk
    /\ UNCHANGED <<instances, alive, nextPid, cache, tableLock, pc, op, usr, prt,
                   monTodo, monSnap, monRunning, monLoops,
                   managerVars>>

\* FrameManager::release_port
release_port(username, written) ==
    LET r == release(registry, username) IN
    /\ r.ok
    /\ registry' = r.reg
    /\ disk' = save(r.reg, disk, written)
    /\ UNCHANGED <<instances, alive, nextPid, cache, tableLock, pc, op, usr, prt,
                   monTodo, monSnap, monRunning, monLoops,
                   managerVars>>

\* InstanceManager::create: inserts a fresh record under instances.write(),
\* replacing the one the key had.
create(username) ==
    /\ tableLock = NoTask
    /\ instances' = [instances EXCEPT ![username] = NewInstance]
    /\ UNCHANGED <<registry, disk, alive, nextPid, cache, tableLock, pc, op, usr, prt,
                   monTodo, monSnap, monRunning, monLoops,
                   managerVars>>

\* InstanceManager::remove: begins with `let _ = self.stop(username).await`
remove(t, username) ==
    /\ pc[t] = "idle"
    /\ Begin(t, "remove", username, 0, "stop")
    /\ UNCHANGED <<registry, disk, instances, alive, nextPid, cache, tableLock, monTodo, monSnap, monRunning, monLoops,
                   managerVars>>

\* FrameManager::stop up to its list(): nothing when the manager is not running;
\* else it clears running and stops the health monitor (which clears its flag).
manager_stop(t) ==
    /\ pc[t] = "idle"
    /\ IF mgrRunning
       THEN /\ mgrRunning' = FALSE
            /\ monRunning' = FALSE
            /\ Begin(t, "shutdown", NoUser, 0, "list")
       ELSE UNCHANGED <<mgrRunning, monRunning, pc, op, usr, prt>>
    /\ UNCHANGED <<registry, disk, instances, alive, nextPid, cache, tableLock, monTodo,
                   monSnap, monLoops, cfgFile, config, sweepTodo, metricsLock, configLock>>

\* FrameManager::stop, instance_manager.list() under instances.read(): the
\* records the loop will visit.
SweepList(t) ==
    /\ pc[t] = "list"
    /\ op[t] = "shutdown"
    /\ tableLock = NoTask
    /\ sweepTodo' = {u \in Users : instances[u].status # "Absent"}
    /\ Goto(t, "sweep")
    /\ UNCHANGED <<registry, disk, instances, alive, nextPid, cache, tableLock, monTodo,
                   monSnap, monRunning, monLoops, cfgFile, config, mgrRunning, metricsLock,
                   configLock>>

\* FrameManager::stop, the loop over the list: InstanceManager::stop for the next
\* record, or the return when there is none left.
SweepNext(t) ==
    /\ pc[t] = "sweep"
    /\ IF sweepTodo = {}
       THEN /\ Finish(t)
            /\ UNCHANGED sweepTodo
       ELSE \E u \in sweepTodo :
               /\ sweepTodo' = sweepTodo \ {u}
               /\ Begin(t, "shutdown", u, 0, "stop")
    /\ UNCHANGED <<registry, disk, instances, alive, nextPid, cache, tableLock, monTodo,
                   monSnap, monRunning, monLoops, cfgFile, config, mgrRunning, metricsLock,
                   configLock>>

\* FrameManager::start_instance run to its return with no other task in between
\* and the registry file written: allocate, `?`, InstanceManager::start.
start_instance_run(reg, inst, running, username, pid, spawned, inUse) ==
    LET a == allocate(reg, username, inUse)
        s == start_run(inst, a.port, running, pid, spawned) IN
    IF a.ok THEN [ok |-> s.ok, reg |-> a.reg, inst |-> s.inst, running |-> s.running]
            ELSE [ok |-> FALSE, reg |-> a.reg, inst |-> inst, running |-> running]

\* FrameManager::stop_instance run to its return.
stop_instance_run(reg, inst, running, outcome) ==
    LET s == stop_run(inst, running, outcome) IN
    [ok |-> s.ok, reg |-> reg, inst |-> s.inst, running |-> s.running]

\* FrameManager::restart_instance run to its return: get_port, an error when it
\* is None, InstanceManager::restart.
restart_instance_run(reg, inst, running, username, pid, spawned, outcome) ==
    LET s == restart_run(inst, get_port(reg, username), running, pid, spawned, outcome) IN
    IF get_port(reg, username) = 0
    THEN [ok |-> FALSE, reg |-> reg, inst |-> inst, running |-> running]
    ELSE [ok |-> s.ok, reg |-> reg, inst |-> s.inst, running |-> s.running]

\* The state a sweep works on, and the users it has called restart_instance for.
SweepState(reg, insts, running, pid) ==
    [ok |-> TRUE, reg |-> reg, instances |-> insts, running |-> running, pid |-> pid,
     attempted |-> {}]

\* The state after restart_instance(username) returned inside a sweep; a spawn
\* that succeeded has used the pid.
SweepStep(st, username, spawned, outcome) ==
    LET r == restart_instance_run(st.reg, st.instances[username], st.running, username,
                                  st.pid, spawned, outcome) IN
    [ok |-> st.ok, reg |-> r.reg,
     instances |-> [st.instances EXCEPT ![username] = r.inst],
     running |-> r.running,
     pid |-> IF st.pid \in r.running /\ st.pid \notin st.running THEN st.pid + 1 ELSE st.pid,
     attempted |-> st.attempted \cup {username}]

RECURSIVE sweep_until_error(_, _, _, _, _, _)
\* A sweep that returns the first error of a restart.
sweep_until_error(order, i, snapshot, st, spawned, outcome) ==
    IF i > Len(order) THEN st
    ELSE IF snapshot[order[i]].status # "Running"
    THEN sweep_until_error(order, i + 1, snapshot, st, spawned, outcome)
    ELSE LET r == restart_instance_run(st.reg, st.instances[order[i]], st.running,
                                       order[i], st.pid, spawned[order[i]],
                                       outcome[order[i]])
             next == SweepStep(st, order[i], spawned[order[i]], outcome[order[i]]) IN
         IF r.ok THEN sweep_until_error(order, i + 1, snapshot, next, spawned, outcome)
                 ELSE [next EXCEPT !.ok = FALSE]

\* A restart_all that stops at the first restart that fails.
restart_all_until_error(reg, insts, running, pid, order, spawned, outcome) ==
    sweep_until_error(order, 1, insts, SweepState(reg, insts, running, pid), spawned, outcome)

RECURSIVE sweep(_, _, _, _, _, _)
\* The loop of restart_all from the i-th record of the list: a record that is
\* Running in the snapshot gets restart_instance, whose result is dropped.
sweep(order, i, snapshot, st, spawned, outcome) ==
    IF i > Len(order) THEN st
    ELSE IF snapshot[order[i]].status # "Running"
    THEN sweep(order, i + 1, snapshot, st, spawned, outcome)
    ELSE sweep(order, i + 1, snapshot,
               SweepStep(st, order[i], spawned[order[i]], outcome[order[i]]),
               spawned, outcome)

\* FrameManager::restart_all run to its return with no other task in between.
\* order is the order in which list() hands out the records; spawned and outcome
\* tell, per user, how the spawn and the signals of its restart end.
restart_all_run(reg, insts, running, pid, order, spawned, outcome) ==
    sweep(order, 1, insts, SweepState(reg, insts, running, pid), spawned, outcome)

\* ----------------------------------------------------------- HealthMonitor
\* process_check is the result of the tick's process probe for the record (TRUE
\* until it ran, and when the record has no pid to probe).
NoSnap == [pid |-> 0, port |-> 0, process_check |-> TRUE]

\* A loop that begins the body of a tick without reading the flag.
MonitorTick_ignores_flag ==
    /\ pc[Mon] = "idle"
    /\ monLoops > 0
    /\ tableLock = NoTask
    /\ \E u \in Users : instances[u].status = "Running"
    /\ monTodo' = {u \in Users : instances[u].status = "Running"}
    /\ monSnap' = [u \in Users |->
                     IF instances[u].status = "Running"
                     THEN [pid |-> instances[u].pid, port |-> instances[u].port,
                           process_check |-> TRUE]
                     ELSE NoSnap]
    /\ pc' = [pc EXCEPT ![Mon] = "probe"]
    /\ UNCHANGED <<registry, disk, instances, alive, nextPid, cache, tableLock, op, usr, prt,
                   monRunning, monLoops,
                   managerVars>>

\* One tick of the loop: instance_manager.list() under instances.read(); the
\* records that are Running in the snapshot are the ones the tick visits.
MonitorTick ==
    /\ pc[Mon] = "idle"
    /\ monLoops > 0
    /\ monRunning
    /\ tableLock = NoTask
    /\ \E u \in Users : instances[u].status = "Running"
    /\ monTodo' = {u \in Users : instances[u].status = "Running"}
    /\ monSnap' = [u \in Users |->
                     IF instances[u].status = "Running"
                     THEN [pid |-> instances[u].pid, port |-> instances[u].port,
                           process_check |-> TRUE]
                     ELSE NoSnap]
    /\ pc' = [pc EXCEPT ![Mon] = "probe"]
    /\ UNCHANGED <<registry, disk, instances, alive, nextPid, cache, tableLock, op, usr, prt,
                   monRunning, monLoops,
                   managerVars>>

\* HealthCheck::process for the snapshot's pid: signal 0 reaches it (a record
\* without a pid gets no process probe).
check_process(snap, running) == snap.pid = 0 \/ is_running(snap.pid, running)

\* all_passed: false when the process probe fails; the port and HTTP probes pass
\* or fail as the instance answers.
ProbeResults(snap, running) ==
    IF check_process(snap, running) THEN {TRUE, FALSE} ELSE {FALSE}

\* A count that a passing probe set does not reset.
next_failures_never_resets(failures, all_passed) == failures + 1

\* consecutive_failures after a probe set
next_failures(failures, all_passed) == IF all_passed THEN 0 ELSE failures + 1

\* The monitor goes on with the next record of the snapshot, or waits for the tick.
MonitorNext(todo) ==
    /\ pc'  = [pc  EXCEPT ![Mon] = IF todo = {} THEN "idle" ELSE "probe"]
    /\ op'  = [op  EXCEPT ![Mon] = "none"]
    /\ usr' = [usr EXCEPT ![Mon] = NoUser]
    /\ prt' = [prt EXCEPT ![Mon] = 0]

\* The tick's body for one Running record: the probes, then the cache entry under
\* status_cache.write(); at the threshold the restart is called with the cache
\* lock still held, and the snapshot record and the probe results live until the
\* end of the body.
MonitorProbe(username, all_passed) ==
    /\ pc[Mon] = "probe"
    /\ username \in monTodo
    /\ all_passed \in ProbeResults(monSnap[username], alive)
    /\ monTodo' = monTodo \ {username}
    /\ cache' = [cache EXCEPT ![username] = next_failures(@, all_passed)]
    /\ IF ~all_passed /\ cache'[username] >= RestartThreshold
       THEN /\ Begin(Mon, "restart", username, monSnap[username].port, "stop")
            /\ monSnap' = [monSnap EXCEPT ![username].process_check =
                                              check_process(monSnap[username], alive)]
       ELSE /\ MonitorNext(monTodo')
            /\ monSnap' = [monSnap EXCEPT ![username] = NoSnap]
    /\ UNCHANGED <<registry, disk, instances, alive, nextPid, tableLock, monRunning, monLoops,
                   managerVars>>

\* After the restart returned, Ok or Err: consecutive_failures = 0, and the cache
\* lock is dropped at the end of the loop body.
MonitorAfterRestart ==
    /\ pc[Mon] = "after"
    /\ cache' = [cache EXCEPT ![usr[Mon]] = 0]
    /\ monSnap' = [monSnap EXCEPT ![usr[Mon]] = NoSnap]
    /\ MonitorNext(monTodo)
    /\ UNCHANGED <<registry, disk, instances, alive, nextPid, tableLock, monTodo,
                   monRunning, monLoops,
                   managerVars>>

\* The monitor holds status_cache.write(): from the cache update that reaches the
\* threshold until the end of that loop body.
MonitorHoldsCache == pc[Mon] \in {"stop", "kill", "start", "spawn", "after"}

\* A manual check that counts and restarts as a tick of the loop does.
check_now_as_tick(username, all_passed) ==
    /\ instances[username].status # "Absent"
    /\ ~MonitorHoldsCache
    /\ pc[Mon] = "idle"
    /\ all_passed \in ProbeResults([pid |-> instances[username].pid,
                                     port |-> instances[username].port,
                                     process_check |-> TRUE], alive)
    /\ cache' = [cache EXCEPT ![username] = next_failures(@, all_passed)]
    /\ IF ~all_passed /\ cache'[username] >= RestartThreshold
       THEN Begin(Mon, "restart", username, instances[username].port, "stop")
       ELSE UNCHANGED <<pc, op, usr, prt>>
    /\ UNCHANGED <<registry, disk, instances, alive, nextPid, tableLock,
                   monTodo, monSnap, monRunning, monLoops,
                   managerVars>>

\* HealthMonitor::check_now: status(username) (an Err when there is no record),
\* the probes, then under status_cache.write() a new entry for the user with
\* consecutive_failures = 0, whatever the probes answered.
check_now(username, all_passed) ==
    /\ instances[username].status # "Absent"
    /\ tableLock = NoTask
    /\ ~MonitorHoldsCache
    /\ all_passed \in ProbeResults([pid |-> instances[username].pid,
                                     port |-> instances[username].port,
                                     process_check |-> TRUE], alive)
    /\ cache' = [cache EXCEPT ![username] = 0]
    /\ UNCHANGED <<registry, disk, instances, alive, nextPid, tableLock, pc, op, usr, prt,
                   monTodo, monSnap, monRunning, monLoops,
                   managerVars>>

\* HealthMonitor::start: nothing when the flag is set; else it sets the flag and
\* spawns a worker loop.
health_start ==
    /\ monRunning \/ monLoops < MaxLoops
    /\ monRunning' = TRUE
    /\ monLoops' = IF monRunning THEN monLoops ELSE monLoops + 1
    /\ UNCHANGED <<registry, disk, instances, alive, nextPid, cache, tableLock, pc, op, usr,
                   prt, monTodo, monSnap,
                   managerVars>>

\* HealthMonitor::stop: clears the flag.
health_stop ==
    /\ monRunning' = FALSE
    /\ UNCHANGED <<registry, disk, instances, alive, nextPid, cache, tableLock, pc, op, usr,
                   prt, monTodo, monSnap, monLoops,
                   managerVars>>

\* A worker loop wakes at its tick, reads the flag cleared and breaks.
MonitorLoopExit ==
    /\ pc[Mon] = "idle"
    /\ monLoops > 0
    /\ ~monRunning
    /\ monLoops' = monLoops - 1
    /\ UNCHANGED <<registry, disk, instances, alive, nextPid, cache, tableLock, pc, op, usr,
                   prt, monTodo, monSnap, monRunning,
                   managerVars>>

\* ------------------------------------- operations that only read the table
\* FrameManager::get_metrics: calls update_metrics.
get_metrics(t) ==
    /\ pc[t] = "idle"
    /\ Begin(t, "metrics", NoUser, 0, "metrics")
    /\ UNCHANGED <<registry, disk, instances, alive, nextPid, tableLock, monTodo, monSnap,
                   monRunning, monLoops, cfgFile, config, mgrRunning, sweepTodo,
                   cache, metricsLock, configLock>>

\* update_metrics: takes metrics.write() and keeps it to its end.
MetricsLock(t) ==
    /\ pc[t] = "metrics"
    /\ metricsLock = NoTask
    /\ metricsLock' = t
    /\ Goto(t, "m_list")
    /\ UNCHANGED <<registry, disk, instances, alive, nextPid, tableLock, monTodo, monSnap,
                   monRunning, monLoops, cfgFile, config, mgrRunning, sweepTodo,
                   cache, configLock>>

\* update_metrics, instance_manager.list(): waits for instances.read().
MetricsList(t) ==
    /\ pc[t] = "m_list"
    /\ tableLock = NoTask
    /\ Goto(t, "m_stats")
    /\ UNCHANGED <<registry, disk, instances, alive, nextPid, tableLock, monTodo, monSnap,
                   monRunning, monLoops, cfgFile, config, mgrRunning, sweepTodo,
                   cache, metricsLock, configLock>>

\* An update_metrics that returns with metrics.write() still held.
MetricsStats_keeps_lock(t) ==
    /\ pc[t] = "m_stats"
    /\ Finish(t)
    /\ UNCHANGED <<registry, disk, instances, alive, nextPid, tableLock, monTodo, monSnap,
                   monRunning, monLoops, cfgFile, config, mgrRunning, sweepTodo,
                   cache, metricsLock, configLock>>

\* update_metrics, port_allocator.stats() under registry.read(), then the end of
\* the function drops metrics.write(); get_metrics exports and returns.
MetricsStats(t) ==
    /\ pc[t] = "m_stats"
    /\ metricsLock' = NoTask
    /\ Finish(t)
    /\ UNCHANGED <<registry, disk, instances, alive, nextPid, tableLock, monTodo, monSnap,
                   monRunning, monLoops, cfgFile, config, mgrRunning, sweepTodo,
                   cache, configLock>>

\* FrameManager::status: takes config.read() and keeps it to its end.
manager_status(t) ==
    /\ pc[t] = "idle"
    /\ configLock' = configLock \cup {t}
    /\ Begin(t, "status", NoUser, 0, "running_count")
    /\ UNCHANGED <<registry, disk, instances, alive, nextPid, tableLock, monTodo, monSnap,
                   monRunning, monLoops, cfgFile, config, mgrRunning, sweepTodo,
                   cache, metricsLock>>

\* FrameManager::status, running_count(), total_count() and list(): each waits
\* for instances.read(); after the last one the running flag is read and
\* config.read() is dropped with the return.
StatusRead(t) ==
    /\ pc[t] \in {"running_count", "total_count", "status_list"}
    /\ tableLock = NoTask
    /\ IF pc[t] = "running_count" THEN Goto(t, "total_count") /\ UNCHANGED configLock
       ELSE IF pc[t] = "total_count" THEN Goto(t, "status_list") /\ UNCHANGED configLock
       ELSE Finish(t) /\ configLock' = configLock \ {t}
    /\ UNCHANGED <<registry, disk, instances, alive, nextPid, tableLock, monTodo, monSnap,
                   monRunning, monLoops, cfgFile, config, mgrRunning, sweepTodo,
                   cache, metricsLock>>

\* HealthMonitor::check_now called by a task.
check_now_call(t, username) ==
    /\ pc[t] = "idle"
    /\ Begin(t, "check", username, 0, "check_status")
    /\ UNCHANGED <<registry, disk, instances, alive, nextPid, tableLock, monTodo, monSnap,
                   monRunning, monLoops, cfgFile, config, mgrRunning, sweepTodo,
                   cache, metricsLock, configLock>>

\* check_now, instance_manager.status(username) under instances.read(): an Err
\* returns at once, else the probes run.
CheckStatus(t) ==
    /\ pc[t] = "check_status"
    /\ tableLock = NoTask
    /\ IF instances[usr[t]].status = "Absent" THEN Finish(t) ELSE Goto(t, "check_cache")
    /\ UNCHANGED <<registry, disk, instances, alive, nextPid, tableLock, monTodo, monSnap,
                   monRunning, monLoops, cfgFile, config, mgrRunning, sweepTodo,
                   cache, metricsLock, configLock>>

\* check_now after the probes: waits for status_cache.write() and inserts the
\* entry with consecutive_failures = 0.
CheckCache(t) ==
    /\ pc[t] = "check_cache"
    /\ ~MonitorHoldsCache
    /\ cache' = [cache EXCEPT ![usr[t]] = 0]
    /\ Finish(t)
    /\ UNCHANGED <<registry, disk, instances, alive, nextPid, tableLock, monTodo, monSnap,
                   monRunning, monLoops, cfgFile, config, mgrRunning, sweepTodo,
                   metricsLock, configLock>>

\* ------------------------------------------------------------------ Config
\* The validated fields of ServiceConfig::default() and DefaultsConfig::default().
DefaultConfig ==
    [port_range_start |-> 30001, port_range_end |-> 32000, manager_port |-> 30000,
     cpu_limit |-> 25]

\* A key the file does not set.
Unset == -1

\* A configuration file that sets none of the validated keys.
EmptyFile ==
    [port_range_start |-> Unset, port_range_end |-> Unset, manager_port |-> Unset,
     cpu_limit |-> Unset]

\* `val as u16` and `val as u8` on the u64 that getuint read: the low bits.
as_u16(val) == val % 65536
as_u8(val) == val % 256

\* parse_service_section and parse_defaults_section: the defaults, with every
\* key the file sets converted to the width of its field.
parse_sections(file) ==
    [port_range_start |-> IF file.port_range_start = Unset
                          THEN DefaultConfig.port_range_start
                          ELSE as_u16(file.port_range_start),
     port_range_end   |-> IF file.port_range_end = Unset
                          THEN DefaultConfig.port_range_end
                          ELSE as_u16(file.port_range_end),
     manager_port     |-> IF file.manager_port = Unset
                          THEN DefaultConfig.manager_port
                          ELSE as_u16(file.manager_port),
     cpu_limit        |-> IF file.cpu_limit = Unset
                          THEN DefaultConfig.cpu_limit
                          ELSE as_u8(file.cpu_limit)]

\* Config::validate: TRUE for Ok
validate(c) ==
    /\ ~(c.port_range_start >= c.port_range_end)
    /\ ~(c.manager_port >= c.port_range_start /\ c.manager_port <= c.port_range_end)
    /\ ~(c.cpu_limit > 100)

\* ConfigParser::parse, which Config::load calls for a file that exists: the
\* sections, then validate.
parse(file) ==
    LET c == parse_sections(file) IN [ok |-> validate(c), config |-> c]

\* FrameManager::reload_config: Config::load, `?`, then the new Config is stored
\* under config.write().
reload_config ==
    LET r == parse(cfgFile) IN
    /\ r.ok => configLock = {}
    /\ config' = IF r.ok THEN r.config ELSE config
    /\ UNCHANGED <<registry, disk, instances, alive, nextPid, cache, tableLock, pc, op, usr,
                   prt, monTodo, monSnap, monRunning, monLoops,
                   cfgFile, mgrRunning, sweepTodo, metricsLock, configLock>>

\* FrameManager after new() and run(): the default Config of a missing file, no
\* lock taken, no shutdown under way.
InitManager ==
    /\ cfgFile = EmptyFile
    /\ config = DefaultConfig
    /\ mgrRunning = TRUE
    /\ sweepTodo = {}
    /\ metricsLock = NoTask
    /\ configLock = {}

\* ---------------------------------------------------------------------- OS
\* A process exits or is killed from outside the manager.
ProcessExit(pid) ==
    /\ pid \in alive
    /\ alive' = alive \ {pid}
    /\ UNCHANGED <<registry, disk, instances, nextPid, cache, tableLock, pc, op, usr, prt,
                   monTodo, monSnap, monRunning, monLoops,
                   managerVars>>

\* ------------------------------------------------------------ specification
Init ==
    /\ registry = [allocated |-> [u \in Users |-> 0], released |-> <<>>]
    /\ disk = registry
    /\ instances = [u \in Users |-> NoInstance]
    /\ alive = {}
    /\ nextPid = 1
    /\ cache = [u \in Users |-> 0]
    /\ tableLock = NoTask
    /\ pc  = [a \in Actors |-> "idle"]
    /\ op  = [a \in Actors |-> "none"]
    /\ usr = [a \in Actors |-> NoUser]
    /\ prt = [a \in Actors |-> 0]
    /\ monTodo = {}
    /\ monSnap = [u \in Users |-> NoSnap]
    /\ monRunning = TRUE
    /\ monLoops = 1
    /\ InitManager

\* The steps of the engine when the operator tasks are TT, their usernames come
\* from UU, the actors that run lifecycle code are AA and fs::write answers from WW.
CallStep(TT, UU, WW) ==
    \/ \E u \in UU : create(u)
    \/ \E t \in TT, u \in UU, w \in WW : \E inUse \in InUseChoices(registry, u) :
          start_instance(t, u, inUse, w)
    \/ \E t \in TT, u \in UU : stop_instance(t, u)
    \/ \E t \in TT, u \in UU : restart_instance(t, u)
    \/ \E t \in TT, u \in UU : remove(t, u)
    \/ \E u \in UU, w \in WW : \E inUse \in InUseChoices(registry, u) :
          allocate_port(u, inUse, w)
    \/ \E u \in UU, w \in WW : release_port(u, w)

RunStep(AA) ==
    \/ \E a \in AA : StartLock(a)
    \/ \E a \in AA : SpawnOk(a)
    \/ \E a \in AA : SpawnFails(a)
    \/ \E a \in AA : StopLock(a)
    \/ \E a \in AA, o \in StopOutcomes : StopSignal(a, o)
    \/ \E a \in AA : RemoveDelete(a)

MonitorStep ==
    \/ MonitorTick
    \/ \E u \in Users, passed \in BOOLEAN : MonitorProbe(u, passed)
    \/ MonitorAfterRestart

OsStep == \E p \in Pids : ProcessExit(p)

\* Several users, one operator task at a time, the ticks of the monitor left
\* out, every write of the registry file accepted.
OneTask == {"t1"}
WriteOk == {TRUE}

Next ==
    \/ CallStep(OneTask, Users, WriteOk)
    \/ RunStep(OneTask)
    \/ OsStep

Spec == Init /\ [][Next]_vars

\* One user, operator tasks running concurrently with each other and with the
\* monitor loop, every write of the registry file accepted.
OneUser == {"alice"}

NextConcurrent ==
    \/ CallStep(Tasks, OneUser, WriteOk)
    \/ RunStep(Actors)
    \/ MonitorStep
    \/ OsStep

SpecConcurrent == Init /\ [][NextConcurrent]_vars

\* Two operator tasks starting and stopping the instances of several users.
NextParallel ==
    \/ \E u \in Users : create(u)
    \/ \E t \in Tasks, u \in Users : \E inUse \in InUseChoices(registry, u) :
          start_instance(t, u, inUse, TRUE)
    \/ \E t \in Tasks, u \in Users : stop_instance(t, u)
    \/ \E t \in Tasks : StartLock(t)
    \/ \E t \in Tasks : SpawnOk(t)
    \/ \E t \in Tasks : SpawnFails(t)
    \/ \E t \in Tasks : StopLock(t)
    \/ \E t \in Tasks, o \in StopOutcomes : StopSignal(t, o)

SpecParallel == Init /\ [][NextParallel]_vars

\* One user and one operator task, the monitor loop, manual checks, and the
\* monitor being stopped and started.
NextMonitor ==
    \/ CallStep(OneTask, OneUser, WriteOk)
    \/ RunStep(OneTask \cup {Mon})
    \/ MonitorStep
    \/ OsStep
    \/ \E u \in OneUser, passed \in BOOLEAN : check_now(u, passed)
    \/ health_start
    \/ health_stop
    \/ MonitorLoopExit

SpecMonitor == Init /\ [][NextMonitor]_vars

\* The scheduling the monitor's liveness rests on: the runtime keeps polling a
\* task that can go on, a process signalled or spawned answers in bounded time
\* (50 polls, the settling window), and tokio's RwLock serves its waiters in
\* turn, so a task waiting for instances.write() gets it.
FairActor(a) ==
    /\ SF_vars(StartLock(a))
    /\ SF_vars(StopLock(a))
    /\ WF_vars(SpawnOk(a) \/ SpawnFails(a))
    /\ WF_vars(\E o \in StopOutcomes : StopSignal(a, o))
    /\ SF_vars(RemoveDelete(a))

FairMonitor ==
    /\ \A a \in OneTask \cup {Mon} : FairActor(a)
    /\ WF_vars(\E u \in Users, passed \in BOOLEAN : MonitorProbe(u, passed))
    /\ WF_vars(MonitorAfterRestart)
    /\ WF_vars(MonitorLoopExit)

\* One user whose instance an operator creates and starts, the monitor loop with
\* its restarts, processes dying, and the monitor being stopped and started.
NextShutdown ==
    \/ \E u \in OneUser : create(u)
    \/ \E t \in OneTask, u \in OneUser : \E inUse \in InUseChoices(registry, u) :
          start_instance(t, u, inUse, TRUE)
    \/ \E a \in OneTask \cup {Mon} : StartLock(a)
    \/ \E a \in OneTask \cup {Mon} : SpawnOk(a)
    \/ \E a \in OneTask \cup {Mon} : SpawnFails(a)
    \/ StopLock(Mon)
    \/ \E o \in StopOutcomes : StopSignal(Mon, o)
    \/ MonitorStep
    \/ OsStep
    \/ health_start
    \/ health_stop
    \/ MonitorLoopExit

SpecShutdown == Init /\ [][NextShutdown]_vars /\ FairMonitor

\* One user, one operator task that calls the operations while the manager runs
\* and then FrameManager::stop, and the monitor loop.
NextStop ==
    \/ mgrRunning /\ CallStep(OneTask, OneUser, WriteOk)
    \/ RunStep(OneTask \cup {Mon})
    \/ MonitorStep
    \/ OsStep
    \/ MonitorLoopExit
    \/ \E t \in OneTask : manager_stop(t)
    \/ \E t \in OneTask : SweepList(t)
    \/ \E t \in OneTask : SweepNext(t)

SpecStop == Init /\ [][NextStop]_vars

\* A step of one actor's operation after it has begun.
ActorStep(a) ==
    \/ StartLock(a)
    \/ SpawnOk(a)
    \/ SpawnFails(a)
    \/ StopLock(a)
    \/ \E o \in StopOutcomes : StopSignal(a, o)
    \/ MetricsLock(a)
    \/ MetricsList(a)
    \/ MetricsStats(a)
    \/ StatusRead(a)
    \/ CheckStatus(a)
    \/ CheckCache(a)

\* The task that only reads: metrics, status, manual checks.
ReaderTask == Tasks \ OneTask

\* One user; a task that starts and stops its instance and refreshes the
\* metrics, one that refreshes the metrics, asks for the service status and
\* runs manual checks; allocations of the user's port; the monitor loop with
\* its restarts, no port of the range bound by another program.  The
\* update_metrics that ends start_instance, stop_instance
\* and restart_instance begins when the lifecycle part has returned and dropped
\* its locks: it is the task's next operation here.
NextLocks ==
    \/ \E u \in OneUser : create(u)
    \/ \E t \in OneTask, u \in OneUser : start_instance(t, u, {}, TRUE)
    \/ \E t \in OneTask, u \in OneUser : stop_instance(t, u)
    \/ \E u \in OneUser : allocate_port(u, {}, TRUE)
    \/ \E t \in Tasks : get_metrics(t)
    \/ \E t \in ReaderTask : manager_status(t)
    \/ \E t \in ReaderTask, u \in OneUser : check_now_call(t, u)
    \/ \E a \in Actors : ActorStep(a)
    \/ MonitorStep

\* Scheduling: the runtime keeps polling a task that can go on, processes answer
\* in bounded time, and tokio's locks serve their waiters in turn.
FairLocks ==
    /\ \A a \in Actors : SF_vars(ActorStep(a))
    /\ WF_vars(\E u \in Users, passed \in BOOLEAN : MonitorProbe(u, passed))
    /\ WF_vars(MonitorAfterRestart)

SpecLocks == Init /\ [][NextLocks]_vars /\ FairLocks

\* ------------------------------------------- the allocator with its file
\* The usernames of the allocator's callers.
AllocUsers == {"alice", "bob", "carol"}

\* The registry file can come from a run whose configured range ended one port
\* later than the present one.
PrevRangeEnd == RangeEnd + 1
FilePorts == RangeStart..PrevRangeEnd

\* The sequences over S without repetition.
Arrangements(S) ==
    {q \in UNION {[1..n -> S] : n \in 0..Cardinality(S)} :
        \A i, j \in 1..Len(q) : i # j => q[i] # q[j]}

\* The documents a run saves: no port held twice, the released pool without
\* repetition and without a port that is held (allocate and release keep this).
SavedRegistries ==
    {[allocated |-> al, released |-> rel] :
        al \in {f \in [AllocUsers -> {0} \cup FilePorts] :
                   \A u, v \in AllocUsers : (u # v /\ f[u] # 0) => f[u] # f[v]},
        rel \in Arrangements(FilePorts)}

LoadableRegistries ==
    {r \in SavedRegistries :
        \A i \in 1..Len(r.released) : r.released[i] \notin Image(r.allocated)}

\* PortRange::default(), the range field of a registry created without a file.
DefaultRange == [start |-> 30001, end |-> 32000]

\* The PortRegistry value: the registry with its range field (path is skipped by
\* serde and set again by load).
PortRegistry(range, reg) ==
    [range |-> range, allocated |-> reg.allocated, released |-> reg.released]

\* A document without the released ports.
to_string_without_released(r, order) ==
    [range     |-> <<r.range.start, r.range.end>>,
     allocated |-> [i \in 1..Len(order) |-> <<order[i], r.allocated[order[i]]>>],
     released  |-> <<>>]

\* serde_json::to_string_pretty(self): the JSON document.  The members of
\* "allocated" are the entries of the HashMap in its iteration order (order);
\* a user without a port has no entry.
to_string_pretty(r, order) ==
    [range     |-> <<r.range.start, r.range.end>>,
     allocated |-> [i \in 1..Len(order) |-> <<order[i], r.allocated[order[i]]>>],
     released  |-> r.released]

\* The orders in which the HashMap can iterate over the entries of r.
IterationOrders(r) ==
    LET keys == {u \in DOMAIN r.allocated : r.allocated[u] # 0} IN
    {q \in Arrangements(keys) : Len(q) = Cardinality(keys)}

\* serde_json::from_str: the registry a document denotes; a user is in the map
\* when the document has a member for it, and a later member replaces an
\* earlier one of the same name.
from_str(doc) ==
    [range     |-> [start |-> doc.range[1], end |-> doc.range[2]],
     allocated |-> [u \in AllocUsers |->
                      LET at == {i \in 1..Len(doc.allocated) : doc.allocated[i][1] = u} IN
                      IF at = {} THEN 0
                      ELSE doc.allocated[CHOOSE i \in at : \A j \in at : j <= i][2]],
     released  |-> doc.released]

\* The engine starts: PortAllocator::new loads the registry file; no instance yet.
InitAllocator ==
    /\ disk \in LoadableRegistries
    /\ registry = load(disk)
    /\ instances = [u \in Users |-> NoInstance]
    /\ alive = {}
    /\ nextPid = 1
    /\ cache = [u \in Users |-> 0]
    /\ tableLock = NoTask
    /\ pc  = [a \in Actors |-> "idle"]
    /\ op  = [a \in Actors |-> "none"]
    /\ usr = [a \in Actors |-> NoUser]
    /\ prt = [a \in Actors |-> 0]
    /\ monTodo = {}
    /\ monSnap = [u \in Users |-> NoSnap]
    /\ monRunning = TRUE
    /\ monLoops = 1
    /\ InitManager

\* What fs::write leaves when it stops after File::create truncated the file
\* (the process is killed, or write_all fails on a full device): a prefix of the
\* new document, possibly empty, that serde_json does not parse.
PartialDocument == [partial |-> TRUE]

\* PortAllocator::allocate whose registry.save() stops inside fs::write.
allocate_port_interrupted(username, inUse) ==
    LET r == allocate(registry, username, inUse) IN
    /\ r.save
    /\ registry' = r.reg
    /\ disk' = PartialDocument
    /\ UNCHANGED <<instances, alive, nextPid, cache, tableLock, pc, op, usr, prt,
                   monTodo, monSnap, monRunning, monLoops,
                   managerVars>>

\* PortAllocator::release whose registry.save() stops inside fs::write.
release_port_interrupted(username) ==
    LET r == release(registry, username) IN
    /\ r.save
    /\ registry' = r.reg
    /\ disk' = PartialDocument
    /\ UNCHANGED <<instances, alive, nextPid, cache, tableLock, pc, op, usr, prt,
                   monTodo, monSnap, monRunning, monLoops,
                   managerVars>>

\* The engine is started again: what is in memory is what the file holds.  A
\* file that does not parse makes PortRegistry::load fail and the engine does
\* not start.
EngineRestart ==
    /\ disk # PartialDocument
    /\ registry' = load(disk)
    /\ UNCHANGED <<disk, instances, alive, nextPid, cache, tableLock, pc, op, usr, prt,
                   monTodo, monSnap, monRunning, monLoops,
                   managerVars>>

\* allocate and release called for any username, fs::write succeeding or not,
\* and restarts of the engine.
NextAllocator ==
    \/ \E u \in AllocUsers, w \in BOOLEAN : \E inUse \in InUseChoices(registry, u) :
          allocate_port(u, inUse, w)
    \/ \E u \in AllocUsers, w \in BOOLEAN : release_port(u, w)
    \/ \E u \in AllocUsers : \E inUse \in InUseChoices(registry, u) :
          allocate_port_interrupted(u, inUse)
    \/ \E u \in AllocUsers : release_port_interrupted(u)
    \/ EngineRestart

SpecAllocator == InitAllocator /\ [][NextAllocator]_vars

\* ------------------------------------------- the configuration file
\* Values an operator writes for a port key and for cpu_limit: the values around
\* the limits of validate, as they are and raised by multiples of the width of
\* the field.
PortsWritten ==
    {p + k * 65536 : p \in {30000, 30001, 32000}, k \in 0..MaxWraps} \cup {Unset}
CpuWritten ==
    {c + k * 256 : c \in {0, 100, 101, 255}, k \in 0..MaxWraps} \cup {Unset}

ConfigFiles ==
    [port_range_start : PortsWritten, port_range_end : PortsWritten,
     manager_port : PortsWritten, cpu_limit : CpuWritten]

\* The engine runs with the default Config and finds any file at its reload.
InitConfig ==
    /\ registry = [allocated |-> [u \in Users |-> 0], released |-> <<>>]
    /\ disk = registry
    /\ instances = [u \in Users |-> NoInstance]
    /\ alive = {}
    /\ nextPid = 1
    /\ cache = [u \in Users |-> 0]
    /\ tableLock = NoTask
    /\ pc  = [a \in Actors |-> "idle"]
    /\ op  = [a \in Actors |-> "none"]
    /\ usr = [a \in Actors |-> NoUser]
    /\ prt = [a \in Actors |-> 0]
    /\ monTodo = {}
    /\ monSnap = [u \in Users |-> NoSnap]
    /\ monRunning = TRUE
    /\ monLoops = 1
    /\ cfgFile \in ConfigFiles
    /\ config = DefaultConfig
    /\ mgrRunning = TRUE
    /\ sweepTodo = {}
    /\ metricsLock = NoTask
    /\ configLock = {}

NextConfig == reload_config

SpecConfig == InitConfig /\ [][NextConfig]_vars

TypeOK ==
    /\ registry.allocated \in [Users -> {0} \cup Ports]
    /\ \A i \in 1..Len(registry.released) : registry.released[i] \in Ports
    /\ \A u \in Users :
         /\ instances[u].status \in {"Absent", "Stopped", "Starting", "Running", "Stopping"}
         /\ instances[u].port \in {0} \cup Ports
         /\ instances[u].pid \in {0} \cup Pids
    /\ alive \subseteq Pids
    /\ nextPid \in 1..(MaxPid + 1)
    /\ cache \in [Users -> 0..RestartThreshold]
    /\ tableLock \in Actors \cup {NoTask}
    /\ monTodo \subseteq Users
    /\ monRunning \in BOOLEAN
    /\ monLoops \in 0..MaxLoops
    /\ mgrRunning \in BOOLEAN
    /\ sweepTodo \subseteq Users
    /\ metricsLock \in Tasks \cup {NoTask}
    /\ configLock \subseteq Tasks

\* ------------------------------------------------------------------ claims
Active == {"Starting", "Running", "Stopping"}

\* A reader (status, list, the monitor's snapshot) gets instances.read() only
\* while no writer holds the lock.
ReaderCanObserve == tableLock = NoTask

\* C1: in every reachable registry state the ports of allocated are pairwise
\* distinct and no port of released is a value of allocated.
C1_AllocatedDistinctReleasedDisjoint ==
    /\ \A u, v \in Users :
         (u # v /\ registry.allocated[u] # 0) => registry.allocated[u] # registry.allocated[v]
    /\ \A i \in 1..Len(registry.released) :
         registry.released[i] \notin Image(registry.allocated)

\* C1 witness: one user holds a port while another port sits in the released pool.
C1_Witness ==
    /\ Len(registry.released) > 0
    /\ Image(registry.allocated) # {}

\* C2: between engine operations every record that is Starting, Running or
\* Stopping has a process_id and a non-zero port.
C2_ActiveHasPidAndPort ==
    ReaderCanObserve =>
        \A u \in Users :
            instances[u].status \in Active =>
                (instances[u].pid # 0 /\ instances[u].port # 0)

\* C3: whenever a reader can observe the table, a Running record has a
\* process_id and a non-zero port.
C3_RunningObservedHasPidAndPort ==
    ReaderCanObserve =>
        \A u \in Users :
            instances[u].status = "Running" =>
                (instances[u].pid # 0 /\ instances[u].port # 0)

\* C3 witness: a record is observable as Running while another actor is between
\* the two halves of a restart of the same user.
C3_Witness ==
    /\ ReaderCanObserve
    /\ \E u \in Users, a \in Actors :
         /\ instances[u].status = "Running"
         /\ pc[a] = "start" /\ op[a] = "restart" /\ usr[a] = u

\* C4: a start whose spawn fails leaves the record Failed.
C4_SpawnFailureMarksFailed ==
    [][\A a \in Actors : SpawnFails(a) => instances'[usr[a]].status = "Failed"]_vars

\* C5: a record with a non-zero port has that port as its user's entry of
\* allocated.
C5_RecordPortIsAllocated ==
    \A u \in Users :
        instances[u].port # 0 => registry.allocated[u] = instances[u].port

\* C6: the ports of the records that are Starting, Running or Stopping are
\* pairwise distinct.
C6_ActivePortsDistinct ==
    ReaderCanObserve =>
        \A u, v \in Users :
            (u # v /\ instances[u].status \in Active /\ instances[v].status \in Active)
                => instances[u].port # instances[v].port

\* Actor a has begun a lifecycle operation on usr[a] that has not returned: it
\* holds the table lock, or it is between restart's stop and start, or between
\* remove's stop and its deletion.
InProgress(a) ==
    \/ pc[a] \in {"spawn", "kill", "delete"}
    \/ pc[a] = "start" /\ op[a] = "restart"

\* A step of InstanceManager::start, stop or remove run by actor b.
LifecycleStep(b) ==
    \/ StartLock(b)
    \/ SpawnOk(b)
    \/ SpawnFails(b)
    \/ StopLock(b)
    \/ \E o \in StopOutcomes : StopSignal(b, o)
    \/ RemoveDelete(b)

\* C7: while a lifecycle operation on a user is in progress, no lifecycle
\* operation of another caller changes that user's record.
C7_PerUserOperationsSerialized ==
    [][\A a, b \in Actors :
          (a # b /\ InProgress(a) /\ LifecycleStep(b) /\ usr[b] = usr[a])
              => instances'[usr[a]] = instances[usr[a]]]_vars

\* A step of FrameManager::release_port.
ReleasePortStep == \E u \in Users, w \in BOOLEAN : release_port(u, w)

\* C8: apart from release_port, no step changes the port of a user that has
\* one, and a start_instance for a user that has a port starts it on that port.
C8_LifecycleKeepsAllocation ==
    [][/\ \/ ReleasePortStep
          \/ \A u \in Users :
                registry.allocated[u] # 0 => registry'.allocated[u] = registry.allocated[u]
       /\ \A t \in Tasks, u \in Users :
            (/\ pc[t] = "idle" /\ pc'[t] = "start" /\ usr'[t] = u
             /\ registry.allocated[u] # 0)
                => (prt'[t] = registry.allocated[u] /\ registry' = registry)]_vars

\* C8 witness: a start is retried after a failed spawn (the record is still
\* Starting without a process) with the port the user already had.
C8_Witness ==
    \E t \in Tasks :
        /\ pc[t] = "start" /\ op[t] = "start"
        /\ instances[usr[t]].status = "Starting"
        /\ instances[usr[t]].pid = 0
        /\ instances[usr[t]].port = prt[t]
        /\ registry.allocated[usr[t]] = prt[t]

\* C9: when remove deletes a record that holds a port, the user has no entry in
\* allocated and the port is in the released pool.
C9_RemoveFreesPort ==
    [][\A a \in Actors :
          (RemoveDelete(a) /\ instances[usr[a]].port # 0) =>
              /\ registry'.allocated[usr[a]] = 0
              /\ Contains(registry'.released, instances[usr[a]].port)]_vars

\* C10: a passing probe set sets consecutive_failures to 0 and a failing one
\* increments it; the restart is called exactly when the count reaches 3; after
\* the restart the count is 0; once the loop body is over the count is at most 2.
C10_ThresholdRestartAndReset ==
    /\ [](~MonitorHoldsCache => \A u \in Users : cache[u] < RestartThreshold)
    /\ [](MonitorHoldsCache => cache[usr[Mon]] = RestartThreshold)
    /\ [][\A u \in Users, all_passed \in BOOLEAN :
            MonitorProbe(u, all_passed) =>
                /\ cache'[u] = IF all_passed THEN 0 ELSE cache[u] + 1
                /\ (pc'[Mon] = "stop") <=> (cache'[u] = RestartThreshold)]_vars
    /\ [][pc[Mon] = "after" /\ pc'[Mon] # "after" => cache'[usr[Mon]] = 0]_vars

\* C10 witness: the restart called at the third failure has returned and the
\* count is about to be reset.
C10_Witness ==
    /\ pc[Mon] = "after"
    /\ cache[usr[Mon]] = RestartThreshold

\* C11: every probe set of a Running record whose process is gone counts one more
\* failure, starting from at most 2, so the third one at the latest calls restart
\* for that user; when that restart has returned, the record's process_id is not
\* the one of the snapshot and consecutive_failures becomes 0.
C11_KilledProcessRestarted ==
    /\ [][MonitorTick => monTodo' = {u \in Users : instances[u].status = "Running"}]_vars
    /\ [][\A u \in Users, all_passed \in BOOLEAN :
            (MonitorProbe(u, all_passed) /\ ~check_process(monSnap[u], alive)) =>
                /\ cache[u] < RestartThreshold
                /\ cache'[u] = cache[u] + 1
                /\ (cache'[u] = RestartThreshold) =>
                      (pc'[Mon] = "stop" /\ op'[Mon] = "restart" /\ usr'[Mon] = u)]_vars
    /\ [][(MonitorAfterRestart /\ ~monSnap[usr[Mon]].process_check) =>
            /\ instances[usr[Mon]].pid # monSnap[usr[Mon]].pid
            /\ cache'[usr[Mon]] = 0]_vars

\* C11 witness: the restart called for a record whose process was gone has
\* returned with a new process recorded.
C11_Witness ==
    /\ pc[Mon] = "after"
    /\ ~monSnap[usr[Mon]].process_check
    /\ instances[usr[Mon]].status = "Running"
    /\ instances[usr[Mon]].pid \in alive

\* C12: the step on which a restart called by the monitor fails (its stop or its
\* spawn returns an error) leaves the record Running, the only status the next
\* tick probes and restarts.
C12_FailedRestartIsRetried ==
    [][(\/ SpawnFails(Mon)
        \/ StopSignal(Mon, "sigfailed") /\ instances'[usr[Mon]].pid # 0) =>
            instances'[usr[Mon]].status = "Running"]_vars

\* The caller runs stop_instance(u) and, when it succeeded, start_instance(u).
StopThenStart(reg, inst, running, username, pid, spawned, outcome, inUse) ==
    LET s == stop_instance_run(reg, inst, running, outcome) IN
    IF s.ok THEN start_instance_run(s.reg, s.inst, s.running, username, pid, spawned, inUse)
            ELSE s

\* No operator task is inside an operation.
Quiescent == \A t \in Tasks : pc[t] = "idle"

\* C13: from every record and registry state, restart_instance(u) returns the
\* same outcome and leaves the same record, registry and processes as
\* stop_instance(u) followed by start_instance(u).
C13_RestartIsStopThenStart ==
    Quiescent =>
        \A u \in Users, spawned \in BOOLEAN, outcome \in StopOutcomes :
            \A inUse \in InUseChoices(registry, u) :
                restart_instance_run(registry, instances[u], alive, u, nextPid, spawned, outcome)
                    = StopThenStart(registry, instances[u], alive, u, nextPid, spawned,
                                    outcome, inUse)

\* C14: start on a Running record returns Ok and changes neither the record
\* (process_id, port, started_at, status) nor the processes: nothing is spawned.
C14_StartOnRunningIsNoop ==
    /\ [](\A u \in Users, port \in Ports, spawned \in BOOLEAN :
            instances[u].status = "Running" =>
                start_run(instances[u], port, alive, nextPid, spawned)
                    = [ok |-> TRUE, inst |-> instances[u], running |-> alive])
    /\ [][\A t \in Tasks :
            (StartLock(t) /\ instances[usr[t]].status = "Running") =>
                /\ instances' = instances
                /\ alive' = alive
                /\ nextPid' = nextPid
                /\ tableLock' = NoTask
                /\ pc'[t] = "idle"]_vars

\* C14 witness: a start_instance has reached InstanceManager::start for a user
\* whose record is Running.
C14_Witness ==
    \E t \in Tasks :
        /\ pc[t] = "start" /\ op[t] = "start"
        /\ tableLock = NoTask
        /\ instances[usr[t]].status = "Running"

\* C15: stop on a Stopped record returns Ok, sends no signal and leaves the
\* record and the processes unchanged.
C15_StopOnStoppedIsNoop ==
    /\ [](\A u \in Users, outcome \in StopOutcomes :
            instances[u].status = "Stopped" =>
                stop_run(instances[u], alive, outcome)
                    = [ok |-> TRUE, inst |-> instances[u], running |-> alive])
    /\ [][\A t \in Tasks :
            (StopLock(t) /\ instances[usr[t]].status = "Stopped") =>
                /\ instances' = instances
                /\ alive' = alive
                /\ tableLock' = NoTask
                /\ pc'[t] # "kill"]_vars

\* C15 witness: a stop_instance has reached InstanceManager::stop for a user whose
\* record is Stopped while a process of another user runs.
C15_Witness ==
    \E t \in Tasks :
        /\ pc[t] = "stop" /\ op[t] = "stop"
        /\ tableLock = NoTask
        /\ instances[usr[t]].status = "Stopped"
        /\ alive # {}

\* C16: when InstanceManager::stop has returned Ok for a record that had a
\* process (the record became Stopped), that process is not running.
C16_StoppedProcessNotRunning ==
    [][\A a \in Actors, outcome \in StopOutcomes :
          (StopSignal(a, outcome) /\ instances'[usr[a]].status = "Stopped") =>
              ~is_running(instances[usr[a]].pid, alive')]_vars

\* The top of the released pool.
LastReleased(reg) == reg.released[Len(reg.released)]

\* C17: for a user without a port and a non-empty released pool, allocate
\* answers the last port of the pool whatever the scan would find, gives it to
\* the user and takes it out of the pool; the other entries stay.
C17_ReleasedPortReusedLifo ==
    \A u \in AllocUsers, inUse \in SUBSET Ports :
        (get_port(registry, u) = 0 /\ Len(registry.released) > 0) =>
            LET r == allocate(registry, u, inUse) IN
            /\ r.ok
            /\ r.port = LastReleased(registry)
            /\ r.reg.allocated = [registry.allocated EXCEPT ![u] = LastReleased(registry)]
            /\ r.reg.released = SubSeq(registry.released, 1, Len(registry.released) - 1)

\* C17 witness: in memory after a release made in this run, two ports wait in the
\* pool, the last one is not the port the scan would find, and a user has no port.
C17_Witness ==
    /\ registry # disk
    /\ Len(registry.released) >= 2
    /\ \E u \in AllocUsers :
         /\ get_port(registry, u) = 0
         /\ scan(RangeStart, RangeEnd, registry, {}) \notin {0, LastReleased(registry)}

\* The ports of the range that the scan may take.
FreePorts(reg, inUse) == {p \in Ports : p \notin Image(reg.allocated) /\ p \notin inUse}

\* C18: for a user without a port and an empty released pool, allocate answers
\* the lowest port of the range that is neither allocated nor OS-bound, and fails
\* without changing anything when there is none (every port allocated included);
\* a range of one port serves one user.
C18_ScanLowestFreeOrFail ==
    /\ \A u \in AllocUsers, inUse \in SUBSET Ports :
         (get_port(registry, u) = 0 /\ Len(registry.released) = 0) =>
             LET r == allocate(registry, u, inUse) IN
             IF FreePorts(registry, inUse) = {}
             THEN ~r.ok /\ r.reg = registry /\ ~r.save
             ELSE /\ r.ok
                  /\ r.port \in FreePorts(registry, inUse)
                  /\ \A q \in FreePorts(registry, inUse) : r.port <= q
                  /\ r.reg.allocated = [registry.allocated EXCEPT ![u] = r.port]
    /\ \A p \in Ports :
         scan(p, p, registry, {}) = IF p \in Image(registry.allocated) THEN 0 ELSE p

\* C18 witness: after an allocation of this run every port of the range is
\* allocated, the pool is empty and a user has no port.
C18_Witness ==
    /\ registry # disk
    /\ Ports \subseteq Image(registry.allocated)
    /\ Len(registry.released) = 0
    /\ \E u \in AllocUsers : get_port(registry, u) = 0

\* C19: for a user that has a port, allocate answers that port, changes neither
\* allocated nor released and writes nothing; allocate for another user never
\* answers that port.
C19_AllocateExistingUnchanged ==
    \A u \in AllocUsers, inUse \in SUBSET Ports :
        get_port(registry, u) # 0 =>
            /\ allocate(registry, u, inUse)
                  = [ok |-> TRUE, port |-> get_port(registry, u), reg |-> registry,
                     save |-> FALSE]
            /\ \A v \in AllocUsers \ {u} :
                  allocate(registry, v, inUse).port # get_port(registry, u)

\* C19 witness: a user holds a port, the pool is not empty, another user has no
\* port, and the file differs from the registry in memory.
C19_Witness ==
    /\ registry # disk
    /\ Len(registry.released) > 0
    /\ \E u, v \in AllocUsers : get_port(registry, u) # 0 /\ get_port(registry, v) = 0

\* C20: every value of allocated and every port allocate answers lies in
\* range_start..range_end.
C20_PortsWithinRange ==
    /\ Image(registry.allocated) \subseteq Ports
    /\ \A u \in AllocUsers, inUse \in SUBSET Ports :
         allocate(registry, u, inUse).ok => allocate(registry, u, inUse).port \in Ports

\* C21: with every port of the range bound on the loopback interface, allocate
\* for a user without a port fails and leaves the registry as it is, whatever
\* allocated and released hold.
C21_AllOsBoundAllocatesNothing ==
    \A u \in AllocUsers :
        get_port(registry, u) = 0 =>
            /\ ~allocate(registry, u, Ports).ok
            /\ allocate(registry, u, Ports).reg = registry

\* The sequence q holds no port twice.
NoDuplicates(q) == \A i, j \in 1..Len(q) : i # j => q[i] # q[j]

\* C22: release for a user with a port removes the entry and appends the port
\* to released, which then holds no port twice; release for a user without a
\* port fails, changes nothing in memory and writes nothing.
C22_ReleaseMovesPortOrFails ==
    \A u \in AllocUsers :
        LET r == release(registry, u) IN
        IF get_port(registry, u) # 0
        THEN /\ r.ok
             /\ r.reg.allocated = [registry.allocated EXCEPT ![u] = 0]
             /\ r.reg.released = Append(registry.released, get_port(registry, u))
             /\ NoDuplicates(r.reg.released)
             /\ r.save
        ELSE ~r.ok /\ r.reg = registry /\ ~r.save

\* C22 witness: after a release of this run the pool holds two ports, a user
\* holds a port and another user has none.
C22_Witness ==
    /\ registry # disk
    /\ Len(registry.released) = 2
    /\ \E u, v \in AllocUsers : get_port(registry, u) # 0 /\ get_port(registry, v) = 0

\* C23: between the calls of allocate and release (registry.write() free) the
\* registry file holds the registry that is in memory.
C23_FileEqualsMemory == disk = registry

\* C24: whatever happens during a save, the registry file afterwards holds the
\* complete document it held before or the complete new one.
C24_SaveReplacesAtomically ==
    [][disk' # disk => disk' = registry']_vars

\* The range fields a registry can carry: the default one, or the one of its file.
RangeFields == {DefaultRange, [start |-> RangeStart, end |-> PrevRangeEnd]}

\* C25: parsing the document that save writes for a registry gives a registry
\* with the same range, allocated map and released sequence, in whatever order
\* the map is written.
C25_SaveThenLoadIsIdentity ==
    \A range \in RangeFields :
        \A order \in IterationOrders(PortRegistry(range, registry)) :
            from_str(to_string_pretty(PortRegistry(range, registry), order))
                = PortRegistry(range, registry)

\* C25 witness: a registry with two entries (two iteration orders) and a
\* released port, not yet in the file.
C25_Witness ==
    /\ Cardinality({u \in AllocUsers : get_port(registry, u) # 0}) = 2
    /\ Len(registry.released) = 1
    /\ disk # registry

\* C30: in every record started_at is present exactly when process_id is.
C30_StartedAtIffProcessId ==
    \A u \in Users : instances[u].started <=> (instances[u].pid # 0)

\* C30 witness: a stop has failed and left a record Stopping with its process,
\* while another record was stopped after having run.
C30_Witness ==
    /\ tableLock = NoTask
    /\ \E u, v \in Users :
         /\ instances[u].status = "Stopping" /\ instances[u].pid # 0
         /\ instances[v].status = "Stopped" /\ instances[v].port # 0

\* The orders in which list() can hand out the records of the table.
ListOrders == {q \in Arrangements(Users) : Len(q) = Cardinality(Users)}

\* C29: restart_all calls restart_instance for exactly the records that are
\* Running in its snapshot, each with the result its restart would have on its
\* own, whichever of them fail, and returns Ok.
C29_RestartAllSweepsEveryRunning ==
    (Quiescent /\ \E u \in Users : instances[u].status = "Running") =>
        \A order \in ListOrders, spawned \in [Users -> BOOLEAN],
           outcome \in [Users -> StopOutcomes] :
            LET r == restart_all_run(registry, instances, alive, nextPid, order,
                                     spawned, outcome) IN
            /\ r.ok
            /\ r.attempted = {u \in Users : instances[u].status = "Running"}
            /\ \A u \in Users :
                  r.instances[u].status =
                      IF instances[u].status = "Running"
                      THEN restart_instance_run(registry, instances[u], alive, u, nextPid,
                                                spawned[u], outcome[u]).inst.status
                      ELSE instances[u].status

\* C29 witness: two records are Running, one of them without an entry in
\* allocated, so that its restart fails while the other's can succeed.
C29_Witness ==
    /\ Quiescent
    /\ \A u \in Users : instances[u].status = "Running"
    /\ \E u, v \in Users : get_port(registry, u) = 0 /\ get_port(registry, v) # 0

\* C26: a manual check changes the user's cache entry and nothing else: the
\* instance table, the processes, the registry and its file stay as they are and
\* no actor begins a restart, whatever the probes answer and whatever the count
\* was.
C26_CheckNowOnlyUpdatesCache ==
    [][\A u \in Users, all_passed \in BOOLEAN :
          check_now(u, all_passed) =>
              /\ UNCHANGED <<instances, alive, nextPid, registry, disk, tableLock>>
              /\ UNCHANGED <<pc, op, usr, prt>>
              /\ \A v \in Users \ {u} : cache'[v] = cache[v]]_vars

\* C26 witness: the count is one short of the threshold and the process of the
\* Running record is gone, so that a tick of the loop would restart.
C26_Witness ==
    \E u \in Users :
        /\ pc[Mon] = "idle"
        /\ cache[u] = RestartThreshold - 1
        /\ instances[u].status = "Running"
        /\ ~is_running(instances[u].pid, alive)

\* C27: at most one worker loop of the health monitor is alive.
C27_SingleMonitorLoop == monLoops <= 1

\* C28: while a task is inside the spawn of a start or the signals of a stop for
\* one user, a task that has called start or stop for another user can take its
\* first step (the lock of the table and the early returns or the status change).
C28_OtherUserNeedNotWait ==
    \A a, b \in Tasks :
        (/\ a # b
         /\ pc[a] \in {"spawn", "kill"}
         /\ pc[b] \in {"start", "stop"}
         /\ usr[b] # usr[a]
         /\ instances[usr[b]].status # "Absent")
            => ENABLED (StartLock(b) \/ StopLock(b))

\* The lifecycle transition table: the status changes start and stop make.
TransitionTable ==
    {<<"Stopped", "Starting">>, <<"Failed", "Starting">>, <<"Starting", "Running">>,
     <<"Starting", "Failed">>, <<"Running", "Stopping">>, <<"Stopping", "Stopped">>}

\* A step of InstanceManager::create or of the deletion of remove.
CreateOrDeleteStep ==
    \/ \E u \in Users : create(u)
    \/ \E a \in Actors : RemoveDelete(a)

\* C31: apart from the insertion of a record by create and its deletion by
\* remove, every change of a record's status is a pair of the transition table.
C31_StatusFollowsTransitionTable ==
    [][\A u \in Users :
          (instances'[u].status # instances[u].status /\ ~CreateOrDeleteStep)
              => <<instances[u].status, instances'[u].status>> \in TransitionTable]_vars

\* C32: the monitor never holds status_cache.write() and the lock of the
\* instance table at the same time.
C32_MonitorNeverHoldsBothLocks == ~(MonitorHoldsCache /\ tableLock = Mon)

\* C33: the body of a tick begins only with the flag set, stop changes nothing
\* of a tick in flight, a loop ends only between ticks, and while the flag stays
\* cleared the tick in flight finishes and every loop ends.
C33_StopEndsLoopAtTickBoundary ==
    /\ [][MonitorTick => monRunning]_vars
    /\ [][health_stop => UNCHANGED <<pc, op, usr, prt, monTodo, monSnap, cache, monLoops>>]_vars
    /\ [][monLoops' < monLoops => (pc[Mon] = "idle" /\ ~monRunning)]_vars
    /\ (~monRunning) ~> (monRunning \/ (monLoops = 0 /\ pc[Mon] = "idle"))

\* C33 witness: the flag was cleared while the monitor is inside the restart of
\* a tick, and the loop is still there.
C33_Witness ==
    /\ ~monRunning
    /\ monLoops = 1
    /\ pc[Mon] \in {"stop", "kill", "start", "spawn", "after"}

\* The values the file gives the validated keys: what is written, and the
\* default for a key that is not set.
Written(file) ==
    [port_range_start |-> IF file.port_range_start = Unset
                          THEN DefaultConfig.port_range_start ELSE file.port_range_start,
     port_range_end   |-> IF file.port_range_end = Unset
                          THEN DefaultConfig.port_range_end ELSE file.port_range_end,
     manager_port     |-> IF file.manager_port = Unset
                          THEN DefaultConfig.manager_port ELSE file.manager_port,
     cpu_limit        |-> IF file.cpu_limit = Unset
                          THEN DefaultConfig.cpu_limit ELSE file.cpu_limit]

\* C34: a reload stores the Config of the file exactly when the values written
\* in the file satisfy the three rules of validate, and otherwise keeps the
\* Config it had.
C34_LoadAcceptsIffWrittenValuesValid ==
    [][reload_config =>
          IF validate(Written(cfgFile)) THEN config' = Written(cfgFile)
                                        ELSE config' = config]_vars

\* C35: every running process that the supervisor spawned is the process_id of
\* a record.
C35_LiveProcessIsTracked ==
    \A p \in alive : \E u \in Users : instances[u].pid = p

\* C36: when the stop of a restart called by the monitor finds the record not
\* Running (an operator stopped it after the tick's snapshot), the monitor does
\* not go on to start it.
C36_MonitorRestartsOnlyRunning ==
    [][(StopLock(Mon) /\ instances[usr[Mon]].status # "Running") => pc'[Mon] # "start"]_vars

\* C37: a start_instance for a user without a record changes neither the
\* registry in memory nor its file.
C37_StartWithoutRecordAllocatesNothing ==
    [][\A t \in Tasks, u \in Users :
          (/\ \E inUse \in SUBSET Ports, w \in BOOLEAN : start_instance(t, u, inUse, w)
           /\ instances[u].status = "Absent")
              => (registry' = registry /\ disk' = disk)]_vars

\* C38: a manual check leaves the user's consecutive_failures as the loop
\* counted it.
C38_CheckNowKeepsFailureCount ==
    [][\A u \in Users, all_passed \in BOOLEAN :
          check_now(u, all_passed) => cache'[u] = cache[u]]_vars

\* C39: once FrameManager::stop has returned, no operation is under way and the
\* monitor is between ticks, no record is Running.
C39_NoneRunningAfterShutdown ==
    (/\ ~mgrRunning
     /\ \A t \in Tasks : pc[t] = "idle"
     /\ pc[Mon] = "idle")
        => \A u \in Users : instances[u].status # "Running"

\* The actor whose lock actor a is waiting for, or NoTask when a is not waiting
\* for a lock that is held: instances.read() or write() at the head of a
\* lifecycle step or of a read of the table, metrics.write(), status_cache.write().
WaitsFor(a) ==
    IF pc[a] \in {"start", "stop", "delete", "list", "m_list", "running_count",
                  "total_count", "status_list", "check_status"}
    THEN tableLock
    ELSE IF pc[a] = "metrics" THEN metricsLock
    ELSE IF pc[a] = "check_cache" /\ MonitorHoldsCache THEN Mon
    ELSE NoTask

\* Actor a waits, directly or through other waiting actors, for itself.
InWaitCycle(a) ==
    \/ WaitsFor(a) = a
    \/ WaitsFor(a) # NoTask /\ WaitsFor(WaitsFor(a)) = a
    \/ /\ WaitsFor(a) # NoTask
       /\ WaitsFor(WaitsFor(a)) # NoTask
       /\ WaitsFor(WaitsFor(WaitsFor(a))) = a

\* C40: no actor waits in a cycle of lock holders, an actor that holds a lock
\* can always take its next step or waits for a lock itself, and every operation
\* that has begun returns.
C40_NoDeadlock ==
    /\ [](\A a \in Actors : ~InWaitCycle(a))
    /\ [](\A a \in Actors :
            (pc[a] # "idle" /\ WaitsFor(a) = NoTask) =>
                ENABLED (ActorStep(a) \/ (a = Mon /\ MonitorStep)))
    /\ \A a \in Actors : (pc[a] # "idle") ~> (pc[a] = "idle")

\* C40 witness: the monitor holds the cache lock and waits for the table lock
\* that a task holds across a spawn, while the other task holds the metrics
\* lock and waits for the table too.
C40_Witness ==
    /\ pc[Mon] \in {"stop", "start"}
    /\ \E t, s \in Tasks :
         /\ t # s
         /\ tableLock = t
         /\ metricsLock = s
         /\ pc[s] = "m_list"

====
